---- MODULE Spec2Model ----
(***************************************************************************)
(* OpenADAS (cherab/openadas/openadas.py): the configuration-driven        *)
(* resolver that maps a physics query to a data file, a block locator and  *)
(* a wavelength, and builds the rate object from them.                     *)
(*                                                                         *)
(* Python objects keep their identity: the configuration is a dict whose   *)
(* values are dicts.  The top-level dict of the resolver and the one a     *)
(* caller got from the `config` property are distinct objects (dict.copy), *)
(* their values are references into `heap`, where the per-category         *)
(* sub-dicts live.                                                          *)
(***************************************************************************)
EXTENDS Integers, Sequences, FiniteSets, TLC

VARIABLES
    heap,                       \* object id -> the nested dict of one category
    next_id,                    \* the next unused object id
    self_config,                \* self._config: category -> object id
    self_data_path,             \* self._data_path
    self_permit_extrapolation,  \* self._permit_extrapolation
    constructed,                \* ghost: what __init__ was given (the entries of its configuration)
    mutations,                  \* how many times the caller changed what it got
    last                        \* the last call and its outcome; after `config`, the dict
                                \* the caller holds

vars == <<heap, next_id, self_config, self_data_path, self_permit_extrapolation,
          constructed, mutations, last>>

----------------------------------------------------------------------------
(* Bounds *)

\* ionisation stages queried: 0 .. MaxIonisation
MaxIonisation == 1
\* metastable levels queried: 1 .. MaxMetastable
MaxMetastable == 2
\* changes a caller applies to a dict it got from `config`
MaxMutations == 1

----------------------------------------------------------------------------
(* Species: cherab.core Element and Isotope *)

None == "None"

Hydrogen == [kind |-> "Element", symbol |-> "H"]
Carbon == [kind |-> "Element", symbol |-> "C"]
Deuterium == [kind |-> "Isotope", symbol |-> "D", element |-> Hydrogen]

Elements == {Hydrogen, Carbon}
Isotopes == {Deuterium}
Species == Elements \cup Isotopes

isinstance(ion, class) == ion.kind = class

\* "extract element from isotope": if isinstance(x, Isotope): x = x.element
extract_element(ion) == IF isinstance(ion, "Isotope") THEN ion.element ELSE ion

Transitions == {<<3, 2>>, <<4, 2>>}
Ionisations == 0 .. MaxIonisation
Metastables == 1 .. MaxMetastable

Categories == {"wavelength", "cxs", "bms", "bmp", "bme", "excitation", "recombination"}

----------------------------------------------------------------------------
(* Nested dicts.  A dict is a function on its keys; d[k] with k missing     *)
(* raises KeyError.                                                         *)

\* d[p1][p2]...[pn]: the value, or KeyError at the first missing key
RECURSIVE getitem(_, _)
getitem(d, path) ==
    IF Len(path) = 0 THEN [found |-> TRUE, value |-> d]
    ELSE IF Head(path) \in DOMAIN d THEN getitem(d[Head(path)], Tail(path))
    ELSE [found |-> FALSE]

\* the nested dict holding the leaves of `flat`, a function from key paths to leaves
RECURSIVE nested(_)
nested(flat) ==
    IF \E p \in DOMAIN flat : Len(p) = 0 THEN flat[CHOOSE p \in DOMAIN flat : TRUE]
    ELSE [k \in {p[1] : p \in DOMAIN flat} |->
            nested([q \in {Tail(p) : p \in {r \in DOMAIN flat : r[1] = k}} |->
                        flat[<<k>> \o q]])]

\* a function restricted to some of its arguments
restrict(f, S) == [x \in S \cap DOMAIN f |-> f[x]]

\* dict.copy(): a new dict with the same keys, each bound to the same object
copy(d) == [k \in DOMAIN d |-> d[k]]

\* the tree a top-level dict denotes: every reference replaced by its object
deref(h, top) == [c \in DOMAIN top |-> h[top[c]]]

----------------------------------------------------------------------------
(* External collaborators: os.path.join, the format readers and the rate    *)
(* objects.  A reader call and a rate object are the record of what they    *)
(* were given.                                                              *)

AbsoluteNames == {"/abs/pec_h1.dat"}

\* os.path.join(a, b): b alone when b is absolute
join(a, b) == IF b \in AbsoluteNames THEN <<b>> ELSE <<a, b>>

adf12(file_path, transition) ==
    [reader |-> "adf12", file_path |-> file_path, transition |-> transition]
adf15(file_path, block_number) ==
    [reader |-> "adf15", file_path |-> file_path, block_number |-> block_number]
adf21(file_path) == [reader |-> "adf21", file_path |-> file_path]
adf22(file_path) == [reader |-> "adf22", file_path |-> file_path]

BeamCXRate(donor_metastable, wavelength_, data, extrapolate) ==
    [rate |-> "BeamCXRate", donor_metastable |-> donor_metastable,
     wavelength |-> wavelength_, data |-> data, extrapolate |-> extrapolate]
BeamStoppingRate(data, extrapolate) ==
    [rate |-> "BeamStoppingRate", data |-> data, extrapolate |-> extrapolate]
BeamPopulationRate(data, extrapolate) ==
    [rate |-> "BeamPopulationRate", data |-> data, extrapolate |-> extrapolate]
BeamEmissionRate(data, wavelength_, extrapolate) ==
    [rate |-> "BeamEmissionRate", data |-> data, wavelength |-> wavelength_,
     extrapolate |-> extrapolate]
ImpactExcitationRate(wavelength_, data, extrapolate) ==
    [rate |-> "ImpactExcitationRate", wavelength |-> wavelength_, data |-> data,
     extrapolate |-> extrapolate]
RecombinationRate(wavelength_, data, extrapolate) ==
    [rate |-> "RecombinationRate", wavelength |-> wavelength_, data |-> data,
     extrapolate |-> extrapolate]

----------------------------------------------------------------------------
(* Outcomes of a call: the value returned or the exception raised, and the *)
(* reader calls made on the way, in order.                                  *)

\* a call as the caller sees it: the method, its arguments and its outcome
Call(op, args, out) == [op |-> op, args |-> args, out |-> out]

Return(value, reads) == [ok |-> TRUE, value |-> value, reads |-> reads]
Raise(error, reads) == [ok |-> FALSE, error |-> error, reads |-> reads]

\* raise RuntimeError("The requested <what> data ... (<args>)".format(args))
RuntimeError(what, args) == [type |-> "RuntimeError", what |-> what, args |-> args]

----------------------------------------------------------------------------
(* The resolver's methods.  `self` is the resolver as a method sees it:     *)
(* [config: the tree self._config denotes, data_path, permit_extrapolation] *)

\* wavelength, were the parent Element never consulted
wavelength_without_fallback(self, ion, ionisation, transition) ==
    LET direct == getitem(self.config, <<"wavelength", ion, ionisation, transition>>)
    IN  IF direct.found THEN Return(direct.value, <<>>)
        ELSE Raise(RuntimeError("wavelength", <<ion.symbol, ionisation, transition>>), <<>>)

\* wavelength, were the species normalised before the lookup as the rate methods do
wavelength_element_first(self, ion, ionisation, transition) ==
    LET element == extract_element(ion)
        entry == getitem(self.config, <<"wavelength", element, ionisation, transition>>)
    IN  IF entry.found THEN Return(entry.value, <<>>)
        ELSE Raise(RuntimeError("wavelength", <<ion.symbol, ionisation, transition>>), <<>>)

wavelength(self, ion, ionisation, transition) ==
    LET direct == getitem(self.config, <<"wavelength", ion, ionisation, transition>>)
    IN  IF direct.found THEN Return(direct.value, <<>>)
        ELSE IF isinstance(ion, "Isotope")
        THEN LET element == ion.element
                 parent == getitem(self.config,
                                   <<"wavelength", element, ionisation, transition>>)
             IN  IF parent.found THEN Return(parent.value, <<>>)
                 ELSE Raise(RuntimeError("wavelength",
                                         <<ion.symbol, ionisation, transition>>), <<>>)
        ELSE Raise(RuntimeError("wavelength", <<ion.symbol, ionisation, transition>>), <<>>)

\* beam_cx_rate, were each rate put at the front of the list (rates.insert(0, ...))
beam_cx_rate_prepending(self, donor_ion, receiver_ion, receiver_ionisation, transition) ==
    LET wl == wavelength(self, receiver_ion, receiver_ionisation - 1, transition)
        donor == extract_element(donor_ion)
        receiver == extract_element(receiver_ion)
        data == getitem(self.config, <<"cxs", donor, receiver, receiver_ionisation>>)
        file_path(i) == join(self.data_path, data.value[i][2])
        n == Len(data.value)
    IN  IF ~wl.ok THEN wl
        ELSE IF ~data.found
        THEN Raise(RuntimeError("beam cx rate",
                                <<donor.symbol, receiver.symbol, receiver_ionisation,
                                  transition>>), <<>>)
        ELSE Return([i \in 1 .. n |->
                        BeamCXRate(data.value[n + 1 - i][1], wl.value,
                                   adf12(file_path(n + 1 - i), transition),
                                   self.permit_extrapolation)],
                    [i \in 1 .. n |-> adf12(file_path(i), transition)])

\* beam_cx_rate, were the data files located before the wavelength is resolved
beam_cx_rate_files_first(self, donor_ion, receiver_ion, receiver_ionisation, transition) ==
    LET wl == wavelength(self, receiver_ion, receiver_ionisation - 1, transition)
        donor == extract_element(donor_ion)
        receiver == extract_element(receiver_ion)
        data == getitem(self.config, <<"cxs", donor, receiver, receiver_ionisation>>)
        file_path(i) == join(self.data_path, data.value[i][2])
    IN  IF ~data.found
        THEN Raise(RuntimeError("beam cx rate",
                                <<donor.symbol, receiver.symbol, receiver_ionisation,
                                  transition>>), <<>>)
        ELSE IF ~wl.ok THEN wl
        ELSE Return([i \in 1 .. Len(data.value) |->
                        BeamCXRate(data.value[i][1], wl.value,
                                   adf12(file_path(i), transition),
                                   self.permit_extrapolation)],
                    [i \in 1 .. Len(data.value) |-> adf12(file_path(i), transition)])

beam_cx_rate(self, donor_ion, receiver_ion, receiver_ionisation, transition) ==
    LET wl == wavelength(self, receiver_ion, receiver_ionisation - 1, transition)
        donor == extract_element(donor_ion)
        receiver == extract_element(receiver_ion)
        data == getitem(self.config, <<"cxs", donor, receiver, receiver_ionisation>>)
        file_path(i) == join(self.data_path, data.value[i][2])
    IN  IF ~wl.ok THEN wl
        ELSE IF ~data.found
        THEN Raise(RuntimeError("beam cx rate",
                                <<donor.symbol, receiver.symbol, receiver_ionisation,
                                  transition>>), <<>>)
        ELSE Return([i \in 1 .. Len(data.value) |->
                        BeamCXRate(data.value[i][1], wl.value,
                                   adf12(file_path(i), transition),
                                   self.permit_extrapolation)],
                    [i \in 1 .. Len(data.value) |-> adf12(file_path(i), transition)])

\* beam_stopping_rate, were the plasma species looked up as passed
beam_stopping_rate_plasma_as_passed(self, beam_ion, plasma_ion, ionisation) ==
    LET beam == extract_element(beam_ion)
        plasma == plasma_ion
        filename == getitem(self.config, <<"bms", beam, plasma, ionisation>>)
        data == adf21(join(self.data_path, filename.value))
    IN  IF ~filename.found
        THEN Raise(RuntimeError("beam stopping rate",
                                <<beam.symbol, plasma.symbol, ionisation>>), <<>>)
        ELSE Return(BeamStoppingRate(data, self.permit_extrapolation), <<data>>)

beam_stopping_rate(self, beam_ion, plasma_ion, ionisation) ==
    LET beam == extract_element(beam_ion)
        plasma == extract_element(plasma_ion)
        filename == getitem(self.config, <<"bms", beam, plasma, ionisation>>)
        data == adf21(join(self.data_path, filename.value))
    IN  IF ~filename.found
        THEN Raise(RuntimeError("beam stopping rate",
                                <<beam.symbol, plasma.symbol, ionisation>>), <<>>)
        ELSE Return(BeamStoppingRate(data, self.permit_extrapolation), <<data>>)

\* beam_population_rate, were the KeyError of the lookup not caught
beam_population_rate_uncaught(self, beam_ion, metastable, plasma_ion, ionisation) ==
    LET beam == extract_element(beam_ion)
        plasma == extract_element(plasma_ion)
        filename == getitem(self.config, <<"bmp", beam, metastable, plasma, ionisation>>)
        data == adf22(join(self.data_path, filename.value))
    IN  IF ~filename.found
        THEN Raise([type |-> "KeyError", what |-> "bmp", args |-> <<>>], <<>>)
        ELSE Return(BeamPopulationRate(data, self.permit_extrapolation), <<data>>)

beam_population_rate(self, beam_ion, metastable, plasma_ion, ionisation) ==
    LET beam == extract_element(beam_ion)
        plasma == extract_element(plasma_ion)
        filename == getitem(self.config, <<"bmp", beam, metastable, plasma, ionisation>>)
        data == adf22(join(self.data_path, filename.value))
    IN  IF ~filename.found
        THEN Raise(RuntimeError("beam population rate",
                                <<beam.symbol, metastable, plasma.symbol, ionisation>>),
                   <<>>)
        ELSE Return(BeamPopulationRate(data, self.permit_extrapolation), <<data>>)

\* beam_emission_rate, were the wavelength resolved at the ionisation stage passed
beam_emission_rate_stage_as_passed(self, beam_ion, plasma_ion, ionisation, transition) ==
    LET wl == wavelength(self, beam_ion, ionisation, transition)
        beam == extract_element(beam_ion)
        plasma == extract_element(plasma_ion)
        filename == getitem(self.config, <<"bme", beam, plasma, ionisation, transition>>)
        data == adf22(join(self.data_path, filename.value))
    IN  IF ~wl.ok THEN wl
        ELSE IF ~filename.found
        THEN Raise(RuntimeError("beam emission rate",
                                <<beam.symbol, plasma.symbol, ionisation, transition>>),
                   <<>>)
        ELSE Return(BeamEmissionRate(data, wl.value, self.permit_extrapolation), <<data>>)

beam_emission_rate(self, beam_ion, plasma_ion, ionisation, transition) ==
    LET wl == wavelength(self, beam_ion, 0, transition)
        beam == extract_element(beam_ion)
        plasma == extract_element(plasma_ion)
        filename == getitem(self.config, <<"bme", beam, plasma, ionisation, transition>>)
        data == adf22(join(self.data_path, filename.value))
    IN  IF ~wl.ok THEN wl
        ELSE IF ~filename.found
        THEN Raise(RuntimeError("beam emission rate",
                                <<beam.symbol, plasma.symbol, ionisation, transition>>),
                   <<>>)
        ELSE Return(BeamEmissionRate(data, wl.value, self.permit_extrapolation), <<data>>)

impact_excitation_rate(self, ion, ionisation, transition) ==
    LET wl == wavelength(self, ion, ionisation, transition)
        element == extract_element(ion)
        entry == getitem(self.config, <<"excitation", element, ionisation, transition>>)
        filename == entry.value[1]
        block_number == entry.value[2]
        data == adf15(join(self.data_path, filename), block_number)
    IN  IF ~wl.ok THEN wl
        ELSE IF ~entry.found
        THEN Raise(RuntimeError("impact excitation rate",
                                <<element.symbol, ionisation, transition>>), <<>>)
        ELSE Return(ImpactExcitationRate(wl.value, data, self.permit_extrapolation),
                    <<data>>)

recombination_rate(self, ion, ionisation, transition) ==
    LET wl == wavelength(self, ion, ionisation, transition)
        element == extract_element(ion)
        entry == getitem(self.config, <<"recombination", element, ionisation, transition>>)
        filename == entry.value[1]
        block_number == entry.value[2]
        data == adf15(join(self.data_path, filename), block_number)
    IN  IF ~wl.ok THEN wl
        ELSE IF ~entry.found
        THEN Raise(RuntimeError("recombination rate",
                                <<element.symbol, ionisation, transition>>), <<>>)
        ELSE Return(RecombinationRate(wl.value, data, self.permit_extrapolation),
                    <<data>>)

\* _setup_data_path(): the per-user cache directory, created when absent
setup_data_path == "~/.cherab/openadas"

----------------------------------------------------------------------------
(* The configurations a resolver is constructed with.  Each category holds  *)
(* some of its candidate entries; a category with no entry is left out of   *)
(* the top-level dict.  Wavelengths are in tenths of a nanometre.           *)

WavelengthEntries ==
    (<<Hydrogen, 0, <<3, 2>>>> :> 6563) @@
    (<<Deuterium, 0, <<3, 2>>>> :> 6561) @@
    (<<Deuterium, 0, <<4, 2>>>> :> 4860) @@
    (<<Deuterium, 1, <<3, 2>>>> :> 1215)

\* the candidate entries of the rate categories, by slot
RateEntries(cat, slot) ==
    CASE cat = "cxs" /\ slot = 1 ->
            <<Hydrogen, Hydrogen, 1>> :> << <<2, "qcx_h0_n2.dat">>, <<1, "qcx_h0_n1.dat">> >>
      [] cat = "cxs" /\ slot = 2 ->
            (<<Hydrogen, Hydrogen, 0>> :> << <<1, "qcx_h0_h0.dat">> >>) @@
            (<<Carbon, Carbon, 1>> :> << <<1, "qcx_c0_c1.dat">> >>)
      [] cat = "bms" /\ slot = 1 -> <<Hydrogen, Carbon, 1>> :> "bms_h_c1.dat"
      [] cat = "bms" /\ slot = 2 ->
            (<<Hydrogen, Hydrogen, 0>> :> "bms_h_h0.dat") @@
            (<<Carbon, Carbon, 1>> :> "bms_c_c1.dat")
      [] cat = "bmp" /\ slot = 1 -> <<Hydrogen, 2, Carbon, 1>> :> "bmp_h2_c1.dat"
      [] cat = "bmp" /\ slot = 2 -> <<Hydrogen, 1, Hydrogen, 0>> :> "bmp_h1_h0.dat"
      [] cat = "bme" /\ slot = 1 -> <<Hydrogen, Carbon, 1, <<3, 2>>>> :> "bme_h_c1.dat"
      [] cat = "bme" /\ slot = 2 ->
            (<<Hydrogen, Hydrogen, 1, <<4, 2>>>> :> "bme_h_h1.dat") @@
            (<<Carbon, Carbon, 1, <<3, 2>>>> :> "bme_c_c1.dat")
      [] cat = "excitation" /\ slot = 1 -> <<Hydrogen, 0, <<3, 2>>>> :> <<"pec_h0.dat", 3>>
      [] cat = "excitation" /\ slot = 2 ->
            <<Hydrogen, 1, <<3, 2>>>> :> <<"/abs/pec_h1.dat", 1>>
      [] cat = "recombination" /\ slot = 1 -> <<Hydrogen, 0, <<3, 2>>>> :> <<"acd_h0.dat", 2>>
      [] cat = "recombination" /\ slot = 2 -> <<Hydrogen, 0, <<4, 2>>>> :> <<"acd_h0_b.dat", 1>>

Slots == {1, 2}

\* the flat entries of category `cat` when the wavelength entries `w` and the slots `r` are in
Entries(cat, w, r) ==
    IF cat = "wavelength" THEN restrict(WavelengthEntries, w)
    ELSE IF r = {} THEN <<>>
    ELSE IF r = {1} THEN RateEntries(cat, 1)
    ELSE IF r = {2} THEN RateEntries(cat, 2)
    ELSE RateEntries(cat, 1) @@ RateEntries(cat, 2)

\* the configuration as the caller of __init__ built it: category -> nested dict
Configuration(w, r) ==
    [cat \in {c \in Categories : DOMAIN Entries(c, w, r) # {}} |-> nested(Entries(cat, w, r))]

\* the objects of a configuration are numbered in this order
CategoryId(cat) ==
    CASE cat = "wavelength" -> 1 [] cat = "cxs" -> 2 [] cat = "bms" -> 3 [] cat = "bmp" -> 4
      [] cat = "bme" -> 5 [] cat = "excitation" -> 6 [] cat = "recombination" -> 7

\* the arguments of __init__ other than the configuration: the defaults, or both given
ConstructorArguments ==
    {[data_path |-> None, permit_extrapolation |-> FALSE],
     [data_path |-> "/data/adas", permit_extrapolation |-> TRUE]}

\* the constructions modelled: every configuration, the sparser ones with the default
\* arguments and the ones holding slot 2 with both arguments given
Constructions ==
    {c \in [w : SUBSET DOMAIN WavelengthEntries, r : SUBSET Slots, a : ConstructorArguments] :
        (c.a.data_path = None) <=> (2 \notin c.r)}

\* the resolver as its methods see it
Self ==
    [config |-> deref(heap, self_config), data_path |-> self_data_path,
     permit_extrapolation |-> self_permit_extrapolation]

\* __init__(data_path, config, permit_extrapolation)
Init ==
    \E c \in Constructions :
        LET config == [cat \in DOMAIN Configuration(c.w, c.r) |-> CategoryId(cat)]
        IN  /\ heap = [id \in {CategoryId(cat) : cat \in DOMAIN config} |->
                          Configuration(c.w, c.r)[CHOOSE cat \in Categories :
                                                      CategoryId(cat) = id]]
            /\ next_id = 8
            /\ self_data_path =
                  (IF c.a.data_path # None THEN c.a.data_path ELSE setup_data_path)
            /\ self_config = copy(config)
            /\ self_permit_extrapolation = c.a.permit_extrapolation
            /\ constructed = [w |-> c.w, r |-> c.r, data_path |-> self_data_path,
                              permit_extrapolation |-> self_permit_extrapolation]
            /\ mutations = 0
            /\ last = [op |-> "__init__"]

\* a resolver constructed with every candidate entry in its configuration
InitFull ==
    /\ Init
    /\ constructed.w = DOMAIN WavelengthEntries
    /\ constructed.r = Slots

----------------------------------------------------------------------------
(* Calls of the resolver's methods and properties *)

\* what a call leaves alone: everything but the record of the call
resolver_unchanged ==
    UNCHANGED <<heap, next_id, self_config, self_data_path, self_permit_extrapolation,
                constructed>>

\* the `config` property: return self._config.copy()
Call_config ==
    /\ last' = [op |-> "config", out |-> Return(copy(self_config), <<>>)]
    /\ resolver_unchanged
    /\ UNCHANGED mutations

\* the `data_path` property
Call_data_path ==
    /\ last' = [op |-> "data_path", out |-> Return(self_data_path, <<>>)]
    /\ resolver_unchanged
    /\ UNCHANGED mutations

\* a call of wavelength, were the value found at the parent Element then stored under
\* the Isotope
Call_wavelength_caching(ion, ionisation, transition) ==
    LET out == wavelength(Self, ion, ionisation, transition)
        direct == getitem(Self.config, <<"wavelength", ion, ionisation, transition>>)
        id == self_config["wavelength"]
    IN  /\ last' = Call("wavelength", <<ion, ionisation, transition>>, out)
        /\ heap' = IF out.ok /\ ~direct.found
                   THEN [heap EXCEPT ![id] =
                            (ion :> ((ionisation :> (transition :> out.value)))) @@ @]
                   ELSE heap
        /\ UNCHANGED <<next_id, self_config, self_data_path, self_permit_extrapolation,
                       constructed, mutations>>

Call_wavelength(ion, ionisation, transition) ==
    /\ last' = Call("wavelength", <<ion, ionisation, transition>>,
                 wavelength(Self, ion, ionisation, transition))
    /\ resolver_unchanged
    /\ UNCHANGED mutations

Call_beam_cx_rate(donor_ion, receiver_ion, receiver_ionisation, transition) ==
    /\ last' = Call("beam_cx_rate",
                 <<donor_ion, receiver_ion, receiver_ionisation, transition>>,
                 beam_cx_rate(Self, donor_ion, receiver_ion, receiver_ionisation,
                              transition))
    /\ resolver_unchanged
    /\ UNCHANGED mutations

Call_beam_stopping_rate(beam_ion, plasma_ion, ionisation) ==
    /\ last' = Call("beam_stopping_rate", <<beam_ion, plasma_ion, ionisation>>,
                 beam_stopping_rate(Self, beam_ion, plasma_ion, ionisation))
    /\ resolver_unchanged
    /\ UNCHANGED mutations

Call_beam_population_rate(beam_ion, metastable, plasma_ion, ionisation) ==
    /\ last' = Call("beam_population_rate", <<beam_ion, metastable, plasma_ion, ionisation>>,
                 beam_population_rate(Self, beam_ion, metastable, plasma_ion, ionisation))
    /\ resolver_unchanged
    /\ UNCHANGED mutations

Call_beam_emission_rate(beam_ion, plasma_ion, ionisation, transition) ==
    /\ last' = Call("beam_emission_rate", <<beam_ion, plasma_ion, ionisation, transition>>,
                 beam_emission_rate(Self, beam_ion, plasma_ion, ionisation, transition))
    /\ resolver_unchanged
    /\ UNCHANGED mutations

Call_impact_excitation_rate(ion, ionisation, transition) ==
    /\ last' = Call("impact_excitation_rate", <<ion, ionisation, transition>>,
                 impact_excitation_rate(Self, ion, ionisation, transition))
    /\ resolver_unchanged
    /\ UNCHANGED mutations

Call_recombination_rate(ion, ionisation, transition) ==
    /\ last' = Call("recombination_rate", <<ion, ionisation, transition>>,
                 recombination_rate(Self, ion, ionisation, transition))
    /\ resolver_unchanged
    /\ UNCHANGED mutations

----------------------------------------------------------------------------
(* What a caller can do to the dict `config` returned, before it goes on   *)
(* to query the resolver.  The values of that dict are the objects          *)
(* self._config holds: copy() copied the top level only.                    *)

\* the dict the caller holds
held == last.out.value

caller_frame ==
    /\ last.op \in {"config", "caller"}
    /\ mutations < MaxMutations
    /\ mutations' = mutations + 1
    /\ UNCHANGED <<self_config, self_data_path, self_permit_extrapolation, constructed>>

\* the caller goes on holding dict `c`
holding(c) == last' = [op |-> "caller", out |-> Return(c, <<>>)]

\* c[cat] = {}
Caller_replace_category(cat) ==
    /\ caller_frame
    /\ heap' = (next_id :> <<>>) @@ heap
    /\ next_id' = next_id + 1
    /\ holding((cat :> next_id) @@ held)

\* del c[cat]
Caller_delete_category(cat) ==
    /\ caller_frame
    /\ cat \in DOMAIN held
    /\ holding(restrict(held, DOMAIN held \ {cat}))
    /\ UNCHANGED <<heap, next_id>>

\* del c[cat][ion]
Caller_delete_species(cat, ion) ==
    /\ caller_frame
    /\ getitem(deref(heap, held), <<cat, ion>>).found
    /\ heap' = [heap EXCEPT ![held[cat]] = restrict(@, DOMAIN @ \ {ion})]
    /\ holding(held)
    /\ UNCHANGED next_id

\* c["wavelength"][ion][ionisation][transition] = value
Caller_set_wavelength(ion, ionisation, transition, value) ==
    /\ caller_frame
    /\ getitem(deref(heap, held), <<"wavelength", ion, ionisation>>).found
    /\ heap' = [heap EXCEPT ![held["wavelength"]][ion][ionisation] =
                                (transition :> value) @@ @]
    /\ holding(held)
    /\ UNCHANGED next_id

\* c["cxs"][donor][receiver][ionisation].append((metastable, filename))
Caller_append_cx(donor, receiver, ionisation, metastable, filename) ==
    /\ caller_frame
    /\ getitem(deref(heap, held), <<"cxs", donor, receiver, ionisation>>).found
    /\ heap' = [heap EXCEPT ![held["cxs"]][donor][receiver][ionisation] =
                                Append(@, <<metastable, filename>>)]
    /\ holding(held)
    /\ UNCHANGED next_id

\* c["cxs"][donor][receiver][ionisation].pop()
Caller_pop_cx(donor, receiver, ionisation) ==
    /\ caller_frame
    /\ getitem(deref(heap, held), <<"cxs", donor, receiver, ionisation>>).found
    /\ Len(heap[held["cxs"]][donor][receiver][ionisation]) > 0
    /\ heap' = [heap EXCEPT ![held["cxs"]][donor][receiver][ionisation] =
                                SubSeq(@, 1, Len(@) - 1)]
    /\ holding(held)
    /\ UNCHANGED next_id

----------------------------------------------------------------------------
(* Specifications *)

\* any call of a query method or of a property
Query ==
    \/ Call_config
    \/ Call_data_path
    \/ \E ion \in Species, ionisation \in Ionisations, transition \in Transitions :
        Call_wavelength(ion, ionisation, transition)
    \/ \E donor \in Species, receiver \in Species, ionisation \in Ionisations,
          transition \in Transitions :
        Call_beam_cx_rate(donor, receiver, ionisation, transition)
    \/ \E beam \in Species, plasma \in Species, ionisation \in Ionisations :
        Call_beam_stopping_rate(beam, plasma, ionisation)
    \/ \E beam \in Species, metastable \in Metastables, plasma \in Species,
          ionisation \in Ionisations :
        Call_beam_population_rate(beam, metastable, plasma, ionisation)
    \/ \E beam \in Species, plasma \in Species, ionisation \in Ionisations,
          transition \in Transitions :
        Call_beam_emission_rate(beam, plasma, ionisation, transition)
    \/ \E ion \in Species, ionisation \in Ionisations, transition \in Transitions :
        Call_impact_excitation_rate(ion, ionisation, transition)
    \/ \E ion \in Species, ionisation \in Ionisations, transition \in Transitions :
        Call_recombination_rate(ion, ionisation, transition)

\* any change a caller applies to the dict it got
Caller ==
    \/ \E cat \in Categories : Caller_replace_category(cat)
    \/ \E cat \in Categories : Caller_delete_category(cat)
    \/ \E cat \in Categories, ion \in Species : Caller_delete_species(cat, ion)
    \/ \E ion \in Species, ionisation \in Ionisations, transition \in Transitions :
        Caller_set_wavelength(ion, ionisation, transition, 7000)
    \/ \E donor \in Elements, receiver \in Elements, ionisation \in Ionisations :
        Caller_append_cx(donor, receiver, ionisation, 3, "qcx_extra.dat")
    \/ \E donor \in Elements, receiver \in Elements, ionisation \in Ionisations :
        Caller_pop_cx(donor, receiver, ionisation)

Next == Query

\* the resolver with callers that query it
Spec == Init /\ [][Next]_vars

CallerNext == Query \/ Caller

\* the resolver, constructed with every candidate entry, with callers that also change
\* the dict `config` gave them
CallerSpec == InitFull /\ [][CallerNext]_vars

----------------------------------------------------------------------------
(* Vocabulary of the properties *)

QueryOps ==
    {"wavelength", "beam_cx_rate", "beam_stopping_rate", "beam_population_rate",
     "beam_emission_rate", "impact_excitation_rate", "recombination_rate"}

\* the configuration tree the resolver holds now
stored == deref(heap, self_config)

\* the resolver as __init__ left it
AsConstructed ==
    [config |-> Configuration(constructed.w, constructed.r),
     data_path |-> constructed.data_path,
     permit_extrapolation |-> constructed.permit_extrapolation]

\* the value at a key path that is present
RECURSIVE at(_, _)
at(d, p) == IF Len(p) = 0 THEN d ELSE at(d, SubSeq(p, 1, Len(p) - 1))[p[Len(p)]]

\* every key of the path is present, level by level
present(d, p) == \A n \in 1 .. Len(p) : p[n] \in DOMAIN at(d, SubSeq(p, 1, n - 1))

ElementOf(species) == IF species \in Isotopes THEN species.element ELSE species

\* what method `op` gives on resolver `self` for the arguments `args`
outcome(self, op, args) ==
    CASE op = "wavelength" -> wavelength(self, args[1], args[2], args[3])
      [] op = "beam_cx_rate" -> beam_cx_rate(self, args[1], args[2], args[3], args[4])
      [] op = "beam_stopping_rate" -> beam_stopping_rate(self, args[1], args[2], args[3])
      [] op = "beam_population_rate" ->
            beam_population_rate(self, args[1], args[2], args[3], args[4])
      [] op = "beam_emission_rate" ->
            beam_emission_rate(self, args[1], args[2], args[3], args[4])
      [] op = "impact_excitation_rate" ->
            impact_excitation_rate(self, args[1], args[2], args[3])
      [] op = "recombination_rate" -> recombination_rate(self, args[1], args[2], args[3])

\* no wavelength entry serves (species, ionisation, transition): none under the species
\* and, for an Isotope, none under its Element
no_wavelength(species, ionisation, transition) ==
    /\ ~present(stored, <<"wavelength", species, ionisation, transition>>)
    /\ species \in Isotopes =>
          ~present(stored, <<"wavelength", species.element, ionisation, transition>>)

\* the last call failed the way a lookup miss fails: the error raised, nothing read,
\* nothing returned
failed_as_not_available ==
    /\ ~last.out.ok
    /\ last.out.error.type = "RuntimeError"
    /\ last.out.reads = <<>>
    /\ "value" \notin DOMAIN last.out

----------------------------------------------------------------------------
(* C1: whatever a caller does to the dict `config` returned, at any depth,  *)
(* every later query gives what it would have given on the resolver as      *)
(* constructed.                                                             *)
C1_ReturnedConfigIsACopy ==
    last.op \in QueryOps => last.out = outcome(AsConstructed, last.op, last.args)

(* C2: wavelength of an Isotope with no entry of its own (missing at the    *)
(* species, the ionisation or the transition level) and an entry under its  *)
(* parent Element returns the Element's value.                              *)
C2_IsotopeFallsBackToElement ==
    (/\ last.op = "wavelength"
     /\ last.args[1] \in Isotopes
     /\ ~present(stored, <<"wavelength", last.args[1], last.args[2], last.args[3]>>)
     /\ present(stored, <<"wavelength", last.args[1].element, last.args[2], last.args[3]>>))
    => /\ last.out.ok
       /\ last.out.value =
            at(stored, <<"wavelength", last.args[1].element, last.args[2], last.args[3]>>)

\* the fallback served a query whose Isotope has the ionisation stage but not the transition
C2_Witness ==
    /\ last.op = "wavelength"
    /\ last.args = <<Deuterium, 0, <<3, 2>>>>
    /\ present(stored, <<"wavelength", Deuterium, 0>>)
    /\ ~present(stored, <<"wavelength", Deuterium, 0, <<3, 2>>>>)
    /\ last.out.ok
    /\ last.out.value = 6563

----------------------------------------------------------------------------
\* the arguments with every Isotope replaced by its Element
with_elements(op, args) ==
    IF op = "beam_stopping_rate" THEN <<ElementOf(args[1]), ElementOf(args[2]), args[3]>>
    ELSE IF op = "beam_population_rate"
    THEN <<ElementOf(args[1]), args[2], ElementOf(args[3]), args[4]>>
    ELSE <<ElementOf(args[1]), args[2], args[3]>>

passes_isotope(op, args) ==
    IF op = "beam_stopping_rate" THEN args[1] \in Isotopes \/ args[2] \in Isotopes
    ELSE IF op = "beam_population_rate" THEN args[1] \in Isotopes \/ args[3] \in Isotopes
    ELSE args[1] \in Isotopes

\* both fail as not available, or both succeed with the same rate object: same file,
\* same block, same wavelength
same_resolution(a, b) ==
    IF a.ok THEN b.ok /\ a.value = b.value
    ELSE ~b.ok /\ a.error.type = "RuntimeError" /\ b.error.type = "RuntimeError"

(* C3 as claimed: beam_stopping_rate, beam_population_rate,                 *)
(* impact_excitation_rate and recombination_rate resolve an Isotope exactly *)
(* as its parent Element, also when the wavelength branch holds an entry    *)
(* keyed by the Isotope.                                                    *)
C3_IsotopeResolvesAsElement ==
    (/\ last.op \in {"beam_stopping_rate", "beam_population_rate",
                     "impact_excitation_rate", "recombination_rate"}
     /\ passes_isotope(last.op, last.args))
    => same_resolution(last.out, outcome(Self, last.op, with_elements(last.op, last.args)))

(* C3 amended: beam_stopping_rate and beam_population_rate resolve an       *)
(* Isotope exactly as its parent Element; impact_excitation_rate and        *)
(* recombination_rate do so when the wavelength branch has no entry under   *)
(* the Isotope for the queried ionisation stage and transition.             *)
C3_IsotopeResolvesAsElementUnlessOwnWavelength ==
    (/\ last.op \in {"beam_stopping_rate", "beam_population_rate",
                     "impact_excitation_rate", "recombination_rate"}
     /\ passes_isotope(last.op, last.args)
     /\ last.op \in {"impact_excitation_rate", "recombination_rate"} =>
            ~present(stored, <<"wavelength", last.args[1], last.args[2], last.args[3]>>))
    => same_resolution(last.out, outcome(Self, last.op, with_elements(last.op, last.args)))

\* an Isotope with no wavelength entry of its own got its excitation rate
C3_Witness ==
    /\ last.op = "impact_excitation_rate"
    /\ last.args[1] \in Isotopes
    /\ ~present(stored, <<"wavelength", last.args[1], last.args[2], last.args[3]>>)
    /\ last.out.ok

----------------------------------------------------------------------------
(* C4: a successful beam_cx_rate returns one rate per configured            *)
(* (metastable, file) pair of cxs[donor][receiver][ionisation], species     *)
(* normalised, the i-th rate tagged with the i-th pair's metastable level   *)
(* and built from the i-th pair's file.                                     *)
C4_OneRatePerConfiguredPairInOrder ==
    (last.op = "beam_cx_rate" /\ last.out.ok)
    => LET pairs == at(stored, <<"cxs", ElementOf(last.args[1]), ElementOf(last.args[2]),
                                 last.args[3]>>)
           rates == last.out.value
       IN  /\ Len(rates) = Len(pairs)
           /\ \A i \in 1 .. Len(pairs) :
                /\ rates[i].donor_metastable = pairs[i][1]
                /\ rates[i].data.reader = "adf12"
                /\ rates[i].data.file_path[Len(rates[i].data.file_path)] = pairs[i][2]

\* two rates came back, for the levels 2 and 1 as configured
C4_Witness ==
    /\ last.op = "beam_cx_rate"
    /\ last.out.ok
    /\ Len(last.out.value) = 2
    /\ last.out.value[1].donor_metastable = 2
    /\ last.out.value[2].donor_metastable = 1

----------------------------------------------------------------------------
\* a lookup the call needs is missing from the configuration, at whatever level
lookup_missing(op, args) ==
    CASE op = "wavelength" -> no_wavelength(args[1], args[2], args[3])
      [] op = "beam_cx_rate" ->
            \/ no_wavelength(args[2], args[3] - 1, args[4])
            \/ ~present(stored, <<"cxs", ElementOf(args[1]), ElementOf(args[2]), args[3]>>)
      [] op = "beam_stopping_rate" ->
            ~present(stored, <<"bms", ElementOf(args[1]), ElementOf(args[2]), args[3]>>)
      [] op = "beam_population_rate" ->
            ~present(stored, <<"bmp", ElementOf(args[1]), args[2], ElementOf(args[3]),
                               args[4]>>)
      [] op = "beam_emission_rate" ->
            \/ no_wavelength(args[1], 0, args[4])
            \/ ~present(stored, <<"bme", ElementOf(args[1]), ElementOf(args[2]), args[3],
                                  args[4]>>)
      [] op = "impact_excitation_rate" ->
            \/ no_wavelength(args[1], args[2], args[3])
            \/ ~present(stored, <<"excitation", ElementOf(args[1]), args[2], args[3]>>)
      [] op = "recombination_rate" ->
            \/ no_wavelength(args[1], args[2], args[3])
            \/ ~present(stored, <<"recombination", ElementOf(args[1]), args[2], args[3]>>)

(* C5: a query whose lookup path is missing, at any level, ends in the      *)
(* not-available error: no rate object, no partial result, no other error,  *)
(* no default.                                                              *)
C5_LookupMissIsNotAvailable ==
    (last.op \in QueryOps /\ lookup_missing(last.op, last.args)) => failed_as_not_available

\* beam_population_rate missed at the metastable level, the beam being configured
C5_Witness ==
    /\ last.op = "beam_population_rate"
    /\ present(stored, <<"bmp", ElementOf(last.args[1])>>)
    /\ ~present(stored, <<"bmp", ElementOf(last.args[1]), last.args[2]>>)
    /\ ~last.out.ok

----------------------------------------------------------------------------
(* C6: beam_stopping_rate with no bms entry fails naming the beam species,  *)
(* the plasma species and the ionisation stage as the caller passed them,   *)
(* for Elements and Isotopes alike.                                         *)
C6_ErrorNamesTheQueryAsPassed ==
    (/\ last.op = "beam_stopping_rate"
     /\ ~present(stored, <<"bms", ElementOf(last.args[1]), ElementOf(last.args[2]),
                           last.args[3]>>))
    => /\ failed_as_not_available
       /\ last.out.error.args = <<last.args[1].symbol, last.args[2].symbol, last.args[3]>>

----------------------------------------------------------------------------
(* C7: beam_cx_rate resolves the wavelength first, for the receiver as      *)
(* passed at ionisation - 1; when that fails the call fails with that very  *)
(* error, whether cxs is configured or not, and reads no file; the cxs      *)
(* error only comes after the wavelength was found.                         *)
C7_WavelengthBeforeChargeExchangeFiles ==
    last.op = "beam_cx_rate"
    => LET wl == wavelength(Self, last.args[2], last.args[3] - 1, last.args[4])
       IN  /\ ~wl.ok => (last.out = wl /\ last.out.reads = <<>>)
           /\ (~last.out.ok /\ last.out.error.what = "beam cx rate") => wl.ok

\* the files were configured and the receiver's wavelength was not
C7_Witness ==
    /\ last.op = "beam_cx_rate"
    /\ present(stored, <<"cxs", ElementOf(last.args[1]), ElementOf(last.args[2]),
                         last.args[3]>>)
    /\ ~last.out.ok
    /\ last.out.error.what = "wavelength"

----------------------------------------------------------------------------
(* C8: wavelength looks up the species itself, then the parent Element of   *)
(* an Isotope, then fails: a direct entry is the value returned whatever    *)
(* the parent holds; the parent serves only an Isotope whose own lookup     *)
(* missed; an Element whose lookup missed fails, whatever its Isotopes hold. *)
C8_DirectThenParentThenFailure ==
    last.op = "wavelength"
    => LET ion == last.args[1]
           direct == <<"wavelength", ion, last.args[2], last.args[3]>>
           parent == <<"wavelength", ion.element, last.args[2], last.args[3]>>
       IN  /\ present(stored, direct) =>
                (last.out.ok /\ last.out.value = at(stored, direct))
           /\ (~present(stored, direct) /\ ion \in Isotopes /\ present(stored, parent)) =>
                (last.out.ok /\ last.out.value = at(stored, parent))
           /\ (~present(stored, direct) /\ ion \in Isotopes /\ ~present(stored, parent)) =>
                failed_as_not_available
           /\ (~present(stored, direct) /\ ion \in Elements) => failed_as_not_available

\* the Isotope's own entry was returned, its Element holding another value
C8_Witness ==
    /\ last.op = "wavelength"
    /\ last.args = <<Deuterium, 0, <<3, 2>>>>
    /\ present(stored, <<"wavelength", Hydrogen, 0, <<3, 2>>>>)
    /\ last.out.ok
    /\ last.out.value = 6561
    /\ last.out.value # at(stored, <<"wavelength", Hydrogen, 0, <<3, 2>>>>)

----------------------------------------------------------------------------
(* C9: beam_emission_rate resolves its wavelength for the beam as passed,   *)
(* at stage 0 whatever the ionisation argument; a failure there is the      *)
(* call's outcome even when bme is configured; on success the rate carries  *)
(* that wavelength and the file of bme[beam][plasma][ionisation][transition] *)
(* with both species normalised.                                            *)
C9_BeamWavelengthAtStageZero ==
    last.op = "beam_emission_rate"
    => LET wl == wavelength(Self, last.args[1], 0, last.args[4])
           entry == <<"bme", ElementOf(last.args[1]), ElementOf(last.args[2]), last.args[3],
                      last.args[4]>>
       IN  /\ ~wl.ok => last.out = wl
           /\ (wl.ok /\ present(stored, entry)) => last.out.ok
           /\ last.out.ok =>
                /\ last.out.value.wavelength = wl.value
                /\ last.out.value.data.file_path[Len(last.out.value.data.file_path)] =
                        at(stored, entry)

\* an Isotope beam at ionisation 1 got the wavelength of its own stage-0 entry
C9_Witness ==
    /\ last.op = "beam_emission_rate"
    /\ last.args[1] = Deuterium
    /\ last.args[3] = 1
    /\ last.out.ok
    /\ last.out.value.wavelength = 6561

----------------------------------------------------------------------------
(* C10: after any sequence of queries and of config / data_path reads the   *)
(* configuration tree, the data path and the extrapolation flag are as      *)
(* constructed, so a query's outcome is the one it has on the resolver as   *)
(* constructed, wherever in the sequence it is issued.                      *)
C10_QueriesLeaveResolverAsConstructed ==
    /\ Self = AsConstructed
    /\ last.op \in QueryOps => last.out = outcome(Self, last.op, last.args)
    /\ last.op = "data_path" => last.out.value = constructed.data_path
    /\ last.op = "config" => deref(heap, last.out.value) = AsConstructed.config

\* a wavelength was served from the parent Element
C10_Witness ==
    /\ last.op = "wavelength"
    /\ last.args[1] \in Isotopes
    /\ ~present(stored, <<"wavelength", last.args[1], last.args[2], last.args[3]>>)
    /\ last.out.ok

====
